---- MODULE Spec2Model ----
(***************************************************************************)
(* Model of the E<T>WIN front end: the typed HTTP client (gaiaApi.ts), the *)
(* dashboard poll loop (SimulationDashboard.tsx) and the policy chat       *)
(* (PolicyChat.tsx).                                                       *)
(*                                                                         *)
(* JavaScript runs one task at a time: every action below is one task of   *)
(* the event loop (a click handler, a timer callback, or the continuation  *)
(* that runs when a promise settles) together with the microtasks and the  *)
(* synchronous React render it triggers.                                   *)
(***************************************************************************)
EXTENDS Integers, Sequences, FiniteSets, TLC

VARIABLES
    \* ---- gaiaApi.ts: one call of an EtwinAPI method ----
    apiPc,          \* "idle" | "pending" | "settled"
    apiMethod,      \* the EtwinAPI method being called
    apiOutcome,     \* what the network did with the request
    apiResult,      \* the settled promise the caller sees
    apiFetches,     \* HTTP requests issued by the current call
    apiCalls,       \* calls made so far
    \* ---- PolicyChat.tsx ----
    input,          \* useState('')
    messages,       \* useState<Message[]>([])
    loading,        \* useState(false)
    chatReq,        \* the policy-chat request in flight, or NoReq
    chatOutcome,    \* what the network did with the last chat request
    chatSent,       \* questions accepted so far
    chatInFlight,   \* policy-chat requests issued and not yet settled
    appliedIndex,   \* useState<number | null>(null): the message just applied
    appliedTimers,  \* pending setTimeout(() => setAppliedIndex(null), 3000)
    \* ---- SimulationDashboard.tsx ----
    sinceManual,        \* Date.now() - lastManualSimTime, capped at the window
    mounted,            \* the component is mounted
    effectPending,      \* runs of the poll effect React still owes
    timerIn,            \* time until the setInterval timer fires, or NoTimer
    simOnline, govOnline, nodes, timestep, simLoading, lastSimMetrics,
    gov,                \* stateData, climate, ..., health
    procs,              \* the calls of tick and applyPolicy in progress
    calls,              \* calls of tick (past its guard) and applyPolicy so far
    \* ---- deriveLocalGovData, called on its own ----
    dMetrics,           \* the simMetrics argument, or None before a call
    dOut,               \* the numbers it returned, or None
    \* ---- generateSyntheticNodes, called on its own ----
    gSf,                \* the stressFactor argument of the current call, or NoCall
    gRng,               \* s of the makeRng closure of the current call
    gDraws,             \* the rand() results of the node being built
    gOut,               \* the nodes built so far by the current call
    gPrev,              \* stressFactor and list of the call before, or None
    \* ---- fetchGov, called on its own ----
    fgCalls,            \* calls of fetchGov so far
    fgLast,             \* govUp and the results of the gets of the last call
    \* ---- SimulationView (orbit simulation view) ----
    isPlaying,          \* useState(true)
    speedMultiplier,    \* useState(10)
    metrics,            \* useState({ emissions: 100.0, ..., timestep: 0 })
    svMounted,          \* the component is mounted
    svEffects,          \* runs of the polling effect React still owes
    svTimers,           \* the setInterval timers that are active
    svInterval,         \* the effect run in force has set its interval variable
    svRequests,         \* the simulate requests of fetchMetrics in flight
    svIssued,           \* simulate requests issued so far
    svOutcome           \* what the network did with the last request answered

apiVars  == <<apiPc, apiMethod, apiOutcome, apiResult, apiFetches, apiCalls>>
chatVars == <<input, messages, loading, chatReq, chatOutcome, chatSent,
              chatInFlight, appliedIndex, appliedTimers>>
viewVars == <<simOnline, govOnline, nodes, timestep, simLoading, lastSimMetrics,
              gov>>
dashVars == <<sinceManual, mounted, effectPending, timerIn,
              simOnline, govOnline, nodes, timestep, simLoading, lastSimMetrics,
              gov, procs, calls>>
deriveVars == <<dMetrics, dOut>>
genVars  == <<gSf, gRng, gDraws, gOut, gPrev>>
fetchGovVars == <<fgCalls, fgLast>>
orbitVars == <<isPlaying, speedMultiplier, metrics, svMounted, svEffects, svTimers,
               svInterval, svRequests, svIssued, svOutcome>>
sideVars == <<deriveVars, genVars, fetchGovVars, orbitVars>>
vars     == <<apiVars, chatVars, dashVars, sideVars>>

-----------------------------------------------------------------------------
(* Bounds of the model *)
MaxApiCalls == 2
MaxChatSent == 2
MaxCalls      == 2      \* calls of tick (past its guard) and applyPolicy
MaxOrbitCalls == 2      \* simulate requests of the orbit simulation view

-----------------------------------------------------------------------------
(* JavaScript values *)
Null        == [t |-> "null"]
None        == [t |-> "none"]
Fulfilled(v) == [status |-> "fulfilled", value |-> v]
Rejected(e)  == [status |-> "rejected", value |-> e]
Error(name)  == [t |-> "error", name |-> name]

\* Response bodies: text that is not JSON, a body whose read is cut by the
\* abort signal, and JSON texts (the JSON text "null" and two objects).
Unparseable == [t |-> "text", json |-> FALSE]
Aborted     == [t |-> "aborted"]
JsonBody(v) == [t |-> "text", json |-> TRUE, parsed |-> v]
Obj(n)      == [t |-> "object", id |-> n]
Bodies      == {Unparseable, Aborted, JsonBody(Null), JsonBody(Obj(1)), JsonBody(Obj(2))}

\* What the network does with one request.
NetFail   == [kind |-> "netfail"]
TimedOut  == [kind |-> "timeout"]
Http(ok, body) == [kind |-> "http", ok |-> ok, body |-> body]
HttpOutcomes == {Http(ok, b) : ok \in BOOLEAN, b \in Bodies \ {Aborted}}

\* AbortSignal.timeout(ms) of each request the client issues; NoTimeout where
\* fetch is called without a signal.
NoTimeout == 0
RequestTimeout(kind) ==
    CASE kind = "get"        -> 5000
      [] kind = "govPost"    -> 10000
      [] kind = "simulate"   -> 8000
      [] kind = "policyChat" -> 20000
      [] kind = "reset"      -> NoTimeout
      [] kind = "ping"       -> NoTimeout
      [] kind = "fetchMetrics" -> NoTimeout

\* Outcomes a request of this kind can have: the abort outcomes exist only
\* when the request carries a signal.
Outcomes(kind) ==
    {NetFail} \cup HttpOutcomes \cup
    (IF RequestTimeout(kind) # NoTimeout THEN {TimedOut, Http(TRUE, Aborted)} ELSE {})

\* fetch(): rejects on a network error or an abort, resolves with the Response
\* for every HTTP status.
fetch(o) ==
    IF o.kind = "http"
    THEN Fulfilled([t |-> "response", ok |-> o.ok, body |-> o.body])
    ELSE Rejected(Error(IF o.kind = "timeout" THEN "TimeoutError" ELSE "TypeError"))

\* Response.json(): rejects when the body is not JSON or its read is aborted.
json(res) ==
    IF res.body = Aborted THEN Rejected(Error("TimeoutError"))
    ELSE IF ~res.body.json THEN Rejected(Error("SyntaxError"))
    ELSE Fulfilled(res.body.parsed)

-----------------------------------------------------------------------------
(* gaiaApi.ts *)

GetMethods  == {"state", "climate", "water", "environment", "economy", "social",
                "alerts", "insight", "timeline", "forecast", "health", "nodes"}
PostMethods == {"simulate", "updateDigitalTwin", "runEmergencySimulation", "reset"}
Methods     == GetMethods \cup PostMethods

\* get without its try / catch: a rejected fetch or json() rejects the call.
get_uncaught(o) ==
    LET res == fetch(o) IN
    IF res.status = "rejected" THEN res
    ELSE IF ~res.value.ok THEN Fulfilled(Null)
    ELSE json(res.value)

\* async function get<T>(base, path)
get(o) ==
    LET res == fetch(o) IN
    IF res.status = "rejected" THEN Fulfilled(Null)
    ELSE IF ~res.value.ok THEN Fulfilled(Null)
    ELSE LET body == json(res.value) IN
         IF body.status = "rejected" THEN Fulfilled(Null) ELSE body

\* fetch(...).then(r => r.ok ? r.json() : null).catch(() => null)
thenJsonCatchNull(o) ==
    LET res == fetch(o) IN
    IF res.status = "rejected" THEN Fulfilled(Null)
    ELSE IF ~res.value.ok THEN Fulfilled(Null)
    ELSE LET body == json(res.value) IN
         IF body.status = "rejected" THEN Fulfilled(Null) ELSE body

govPost(o)  == thenJsonCatchNull(o)
simulate(o) == thenJsonCatchNull(o)

\* reset: () => fetch(url, { method: 'POST' }).catch(() => null)
reset(o) ==
    LET res == fetch(o) IN
    IF res.status = "rejected" THEN Fulfilled(Null) ELSE res

RequestKind(m) ==
    IF m \in GetMethods THEN "get"
    ELSE IF m = "simulate" THEN "simulate"
    ELSE IF m = "reset" THEN "reset"
    ELSE "govPost"

EtwinAPI(m, o) ==
    IF m \in GetMethods THEN get(o)
    ELSE IF m = "simulate" THEN simulate(o)
    ELSE IF m = "reset" THEN reset(o)
    ELSE govPost(o)

\* A client that repeats a failed request once.
FetchesAfterSettle_retry(m, o) == IF EtwinAPI(m, o) = Fulfilled(Null) THEN 1 ELSE 0

\* Requests a call issues after its first request has settled: none, the
\* failure paths return null directly.
FetchesAfterSettle(m, o) == 0

ApiInit ==
    /\ apiPc = "idle"
    /\ apiMethod = "state"
    /\ apiOutcome = None
    /\ apiResult = None
    /\ apiFetches = 0
    /\ apiCalls = 0

\* A caller invokes EtwinAPI.m(): the method body calls fetch once.
ApiInvoke(m) ==
    /\ apiPc # "pending"
    /\ apiCalls < MaxApiCalls
    /\ apiPc' = "pending"
    /\ apiMethod' = m
    /\ apiOutcome' = None
    /\ apiResult' = None
    /\ apiFetches' = 1
    /\ apiCalls' = apiCalls + 1
    /\ UNCHANGED <<chatVars, dashVars, sideVars>>

\* The request settles and the method's continuation runs to its return.
ApiSettle(o) ==
    /\ apiPc = "pending"
    /\ o \in Outcomes(RequestKind(apiMethod))
    /\ apiPc' = "settled"
    /\ apiOutcome' = o
    /\ apiResult' = EtwinAPI(apiMethod, o)
    /\ apiFetches' = apiFetches + FetchesAfterSettle(apiMethod, o)
    /\ UNCHANGED <<apiMethod, apiCalls>>
    /\ UNCHANGED <<chatVars, dashVars, sideVars>>

-----------------------------------------------------------------------------
(* PolicyChat.tsx *)

NoReq == None

\* Texts the user can submit: typed input (possibly blank or padded) and the
\* suggestion buttons.
Inputs      == {"", " ", "tax", " tax ", "metro"}
SUGGESTIONS == {"carbon tax?"}

\* String.prototype.trim on the texts above.
trim(s) ==
    CASE s = " "     -> ""
      [] s = " tax " -> "tax"
      [] OTHER       -> s

\* Bodies the policy-chat endpoint can answer with: PolicyResult objects with
\* and without delta entries, the JSON text "null", and bodies .json() rejects.
PolicyResult(n, deltaKeys) ==
    [t |-> "object", analysis |-> "analysis", policy_used |-> n, delta |-> deltaKeys]
ChatBodies ==
    {Unparseable, Aborted, JsonBody(Null),
     JsonBody(PolicyResult(1, {"emissions"})), JsonBody(PolicyResult(2, {}))}
ChatOutcomes ==
    {NetFail, TimedOut} \cup {Http(ok, b) : ok \in BOOLEAN, b \in ChatBodies}

UserMessage(q)        == [role |-> "user", text |-> q]
AssistantMessage(d)   == [role |-> "assistant", text |-> d.analysis, result |-> d]
ErrorMessage(message) == [role |-> "assistant", text |-> message]

\* send without its res.ok check.
sendReply_noOkCheck(o) ==
    LET res == fetch(o) IN
    IF res.status = "rejected" THEN ErrorMessage(res.value.name)
    ELSE LET data == json(res.value) IN
         IF data.status = "rejected" THEN ErrorMessage(data.value.name)
         ELSE IF data.value = Null THEN ErrorMessage("TypeError")
         ELSE AssistantMessage(data.value)

\* The try / catch of send, from the settled fetch to the message appended.
\* Reading data.analysis of a null body throws inside the try block.
sendReply(o) ==
    LET res == fetch(o) IN
    IF res.status = "rejected" THEN ErrorMessage(res.value.name)
    ELSE IF ~res.value.ok THEN ErrorMessage("Server returned status")
    ELSE LET data == json(res.value) IN
         IF data.status = "rejected" THEN ErrorMessage(data.value.name)
         ELSE IF data.value = Null THEN ErrorMessage("TypeError")
         ELSE AssistantMessage(data.value)

\* A send that accepts a blank question.
Rejects_onlyWhenLoading(q, isLoading) == isLoading

\* A send that accepts a question while a request is loading.
Rejects_onlyBlank(q, isLoading) == q = ""

\* if (!q || loading) return
Rejects(q, isLoading) == q = "" \/ isLoading

\* appliedIndex === null; message i of the transcript is messages[i + 1] here.
NoIndex == 0

ChatInit ==
    /\ input = ""
    /\ messages = <<>>
    /\ loading = FALSE
    /\ chatReq = NoReq
    /\ chatOutcome = None
    /\ chatSent = 0
    /\ chatInFlight = 0
    /\ appliedIndex = NoIndex
    /\ appliedTimers = 0

\* onChange of the input box (disabled while loading).
TypeInput(s) ==
    /\ ~loading
    /\ input' = s
    /\ UNCHANGED <<messages, loading, chatReq, chatOutcome, chatSent,
                   chatInFlight, appliedIndex, appliedTimers>>
    /\ UNCHANGED <<apiVars, dashVars, sideVars>>

\* send(question?) up to its first await.
send(text) ==
    LET q == trim(text) IN
    IF Rejects(q, loading)
    THEN UNCHANGED chatVars
    ELSE /\ chatSent < MaxChatSent
         /\ input' = ""
         /\ messages' = Append(messages, UserMessage(q))
         /\ loading' = TRUE
         /\ chatReq' = [question |-> q]
         /\ chatSent' = chatSent + 1
         /\ chatInFlight' = chatInFlight + 1
         /\ UNCHANGED <<chatOutcome, appliedIndex, appliedTimers>>

\* Enter key in the input (not while it is disabled) or the send button (not
\* while it is disabled): send().
SendInput ==
    /\ ~loading
    /\ send(input)
    /\ UNCHANGED <<apiVars, dashVars, sideVars>>

\* A suggestion button, rendered while the transcript is empty: send(s).
SendSuggestion(s) ==
    /\ Len(messages) = 0
    /\ send(s)
    /\ UNCHANGED <<apiVars, dashVars, sideVars>>

\* const clear = () => setMessages([])
clear ==
    /\ messages' = <<>>
    /\ UNCHANGED <<input, loading, chatReq, chatOutcome, chatSent,
                   chatInFlight, appliedIndex, appliedTimers>>
    /\ UNCHANGED <<apiVars, dashVars, sideVars>>

-----------------------------------------------------------------------------
(* SimulationDashboard.tsx *)

PollInterval         == 6000      \* setInterval(tick, 6000)
ManualOverrideWindow == 15000     \* now - lastManualSimTime < 15000
\* Time is kept relative to the present: only now - lastManualSimTime and
\* the delay of the interval timer matter to the code.  The clock advances one
\* poll interval at a time; a lastManualSimTime at least the window ago is kept
\* as exactly the window ago.
ClockStep == PollInterval
NoTimer   == -1

GovFields     == {"stateData", "climate", "water", "env", "economy", "social",
                  "alerts", "insight", "forecast", "health"}
DerivedFields == {"stateData", "climate", "water", "env", "economy", "social", "forecast"}
Endpoint(f) ==
    CASE f = "stateData" -> "state"
      [] f = "env"       -> "environment"
      [] OTHER           -> f

\* What the services answer.  The governance objects are tagged with the call
\* (of tick or applyPolicy) that fetched them, the metrics with the place of
\* the simulate request they answer among the requests sent.
GovObject(f, seq) == [t |-> "object", endpoint |-> Endpoint(f), poll |-> seq]
Metrics(seq)    == [t |-> "metrics", step |-> seq, average_social_vulnerability |-> 40]
SimResponse(hasResults, results, hasTs, ts) ==
    [t |-> "object", hasResults |-> hasResults, results |-> results,
     hasTs |-> hasTs, current_timestep |-> ts]
NodesResponse(raw) == [t |-> "object", nodes |-> raw]
Policies == {1, 2}

\* const steps = 1 in stepSim; stepSim() of tick passes no policy.
Steps    == 1
NoPolicy == 0
\* The body of the simulate request: JSON.stringify({ steps, policy }).
SimBody(steps, policy) == [steps |-> steps, policy |-> policy]

\* The outcomes the dashboard's requests are given.  The simulation service
\* answers its seq-th request with the metrics of step seq and
\* current_timestep = seq.
PingOutcomes == {NetFail, Http(TRUE, JsonBody(Obj(1))), Http(FALSE, Unparseable)}
SimOutcomes(seq) ==
    {TimedOut, Http(FALSE, Unparseable),
     Http(TRUE, JsonBody(SimResponse(FALSE, <<>>, TRUE, seq))),
     Http(TRUE, JsonBody(SimResponse(TRUE, <<>>, TRUE, seq))),
     Http(TRUE, JsonBody(SimResponse(TRUE, <<Metrics(seq)>>, TRUE, seq)))}
GovFailures  == {NetFail, Http(FALSE, Unparseable)}
GovFailSets  == {{}, {"stateData", "alerts"}, GovFields}
NodesOutcomes ==
    {NetFail, Http(TRUE, JsonBody(NodesResponse(<<>>))),
     Http(TRUE, JsonBody(NodesResponse(<<1, 2>>)))}

\* fetch(url).then(r => r.ok).catch(() => false)
ping(o) ==
    LET res == fetch(o) IN
    IF res.status = "rejected" THEN FALSE ELSE res.value.ok

\* The objects deriveLocalGovData computes from the step's metrics and timestep.
deriveLocalGovData(simMetrics, ts) ==
    [f \in DerivedFields |->
        [t |-> "derived", field |-> f, simMetrics |-> simMetrics, cycle |-> ts]]

\* Math.min(1, Math.abs(m.average_social_vulnerability ?? 0.35) + 0.1), in
\* hundredths.
Abs(x)    == IF x < 0 THEN -x ELSE x
Min(a, b) == IF a < b THEN a ELSE b
Max(a, b) == IF a > b THEN a ELSE b
stressFactor(m) ==
    LET v == IF "average_social_vulnerability" \in DOMAIN m
             THEN m.average_social_vulnerability ELSE 35
    IN Min(100, Abs(v) + 10)

buildNodesFromAPI(raw) == [from |-> "api", length |-> Len(raw), raw |-> raw]

\* A fallback that generates no nodes.
generateSyntheticNodes_none(sf) == [from |-> "synthetic", length |-> 0, stressFactor |-> sf]

generateSyntheticNodes(sf) == [from |-> "synthetic", length |-> 200, stressFactor |-> sf]
NoNodes == [from |-> "initial", length |-> 0]

\* fetchNodes after its await: the value it passes to setNodes.
fetchNodes(data, sf) ==
    IF data # Null /\ Len(data.nodes) > 0
    THEN buildNodesFromAPI(data.nodes)
    ELSE generateSyntheticNodes(sf)

\* A tick that steps the simulation whatever its pings said.
StepAfterPings_always(simUp, govUp) == TRUE

\* A tick that steps the simulation when either service answered.
StepAfterPings_eitherUp(simUp, govUp) == simUp \/ govUp

\* if (simUp) { const result = await stepSim(); ... }
StepAfterPings(simUp, govUp) == simUp

\* A stepSim that turns a missing result into a step without metrics.
stepSimResult_default(result) ==
    IF result = Null \/ ~result.hasResults \/ Len(result.results) = 0
    THEN [t |-> "step", m |-> Null, ts |-> 0]
    ELSE [t |-> "step", m |-> result.results[Len(result.results)],
          ts |-> IF result.hasTs THEN result.current_timestep ELSE 0]

\* stepSim after its await: null, or the last result and the timestep.
stepSimResult(result) ==
    IF result = Null THEN None
    ELSE IF ~result.hasResults \/ Len(result.results) = 0 THEN None
    ELSE [t |-> "step", m |-> result.results[Len(result.results)],
          ts |-> IF result.hasTs THEN result.current_timestep ELSE 0]

\* A live branch that stores every result, null included.
fetchGovLive_unguarded(g, results) == [f \in GovFields |-> results[f]]

\* A live branch that updates the view only when all ten gets succeeded.
fetchGovLive_allOrNothing(g, results) ==
    IF \A f \in GovFields : results[f] # Null THEN results ELSE g

\* fetchGov, live branch: the setters that run for the ten settled gets.
fetchGovLive(g, results) ==
    [f \in GovFields |-> IF results[f] # Null THEN results[f] ELSE g[f]]

\* A fallback branch that forgets setForecast.
fetchGovDerived_noForecast(g, simMetrics, ts) ==
    LET d == deriveLocalGovData(simMetrics, ts) IN
    [f \in GovFields |-> IF f \in DerivedFields \ {"forecast"} THEN d[f] ELSE g[f]]

\* A fallback branch that clears what it cannot derive.
fetchGovDerived_clearsLive(g, simMetrics, ts) ==
    LET d == deriveLocalGovData(simMetrics, ts) IN
    [f \in GovFields |-> IF f \in DerivedFields THEN d[f] ELSE Null]

\* fetchGov, fallback branch.
fetchGovDerived(g, simMetrics, ts) ==
    LET d == deriveLocalGovData(simMetrics, ts) IN
    [f \in GovFields |-> IF f \in DerivedFields THEN d[f] ELSE g[f]]

\* A window that never ends.
Suppressed_forever(elapsed) == elapsed <= ManualOverrideWindow

\* A window as long as one poll interval only.
Suppressed_short(elapsed) == elapsed < PollInterval

\* if (now - lastManualSimTime < 15000) return
Suppressed(elapsed) == elapsed < ManualOverrideWindow

\* A cleanup that leaves the timer running.
clearInterval_leak(id) == id

clearInterval(id) == NoTimer

\* A call that has not started yet, or has returned.  procs[p] is the p-th
\* call started.
Idle ==
    [kind |-> "none", pc |-> "idle", govUp |-> FALSE, body |-> None, seq |-> 0,
     step |-> None, govPending |-> FALSE, nodesPending |-> FALSE]
Slots == 1..MaxCalls

\* A call awaiting Promise.all([fetchGov(m, ts, govUp), fetchNodes(stressFactor)]).
Fetching(kind, step, govUp) ==
    [kind |-> kind, pc |-> "fetch", govUp |-> govUp, body |-> None, seq |-> 0,
     step |-> step, govPending |-> govUp, nodesPending |-> TRUE]

\* A call awaiting its pings (body = None) or its simulate request.
NewProc(kind, pc, govUp, body) ==
    [kind |-> kind, pc |-> pc, govUp |-> govUp, body |-> body, seq |-> 0,
     step |-> None, govPending |-> FALSE, nodesPending |-> FALSE]

\* The place of the next simulate request among the requests the simulation
\* service is sent: later requests get higher numbers.  Counted are the calls
\* that are past their pings.
NextSeq == 1 + Cardinality({q \in 1..calls : procs[q].pc # "ping"})

\* A state setter: React drops updates of an unmounted component.
SetState(old, new) == IF mounted THEN new ELSE old

DashInit ==
    /\ sinceManual = ManualOverrideWindow   \* lastManualSimTime = 0, long ago
    /\ mounted = TRUE
    /\ effectPending \in {1, 2}      \* production build, StrictMode development build
    /\ timerIn = NoTimer
    /\ simOnline = FALSE
    /\ govOnline = FALSE
    /\ nodes = NoNodes
    /\ timestep = 0
    /\ simLoading = FALSE
    /\ lastSimMetrics = Null
    /\ gov = [f \in GovFields |-> Null]
    /\ procs = [p \in Slots |-> Idle]
    /\ calls = 0

\* tick() up to its first await.  The callback the effect has scheduled is the
\* one created by the latest render: React re-runs the effect in the task of
\* the click that changed lastManualSimTime.
tick ==
    IF Suppressed(sinceManual)
       THEN UNCHANGED <<procs, calls>>
       ELSE /\ calls < MaxCalls
            /\ calls' = calls + 1
            /\ procs' = [procs EXCEPT ![calls + 1] = NewProc("tick", "ping", FALSE, None)]

\* The poll effect: cleanup of the previous run, tick(), setInterval(tick, 6000).
RunEffect ==
    /\ mounted
    /\ effectPending > 0
    /\ effectPending' = effectPending - 1
    /\ tick
    /\ timerIn' = PollInterval
    /\ UNCHANGED <<sinceManual, mounted, viewVars>>
    /\ UNCHANGED <<apiVars, chatVars, sideVars>>

\* The interval timer fires.
IntervalTick ==
    /\ effectPending = 0
    /\ timerIn = 0
    /\ tick
    /\ timerIn' = PollInterval
    /\ UNCHANGED <<sinceManual, mounted, effectPending, viewVars>>
    /\ UNCHANGED <<apiVars, chatVars, sideVars>>

\* Both health pings of a tick have settled.
PingSettle(p, simOut, govOut) ==
    /\ effectPending = 0
    /\ procs[p].pc = "ping"
    /\ LET simUp == ping(simOut)
           govUp == ping(govOut)
       IN /\ simOnline' = SetState(simOnline, simUp)
          /\ govOnline' = SetState(govOnline, govUp)
          /\ IF StepAfterPings(simUp, govUp)
             THEN \* stepSim(): setSimLoading(true), EtwinAPI.simulate(1, undefined)
                  /\ simLoading' = SetState(simLoading, TRUE)
                  /\ procs' = [procs EXCEPT ![p].pc = "sim", ![p].govUp = govUp,
                                            ![p].body = SimBody(Steps, NoPolicy),
                                            ![p].seq = NextSeq]
                  /\ UNCHANGED calls
             ELSE \* the tick returns, having sent no request that is answered
                  \* with tagged data: the latest call started gives its place back
                  /\ procs' = [procs EXCEPT ![p] = Idle]
                  /\ calls' = IF p = calls THEN calls - 1 ELSE calls
                  /\ UNCHANGED simLoading
    /\ UNCHANGED <<sinceManual, mounted, effectPending, timerIn,
                   nodes, timestep, lastSimMetrics, gov>>
    /\ UNCHANGED <<apiVars, chatVars, sideVars>>

\* applyPolicy(policy) up to the await inside stepSim.
applyPolicy(policy) ==
    /\ mounted
    /\ effectPending = 0
    /\ calls < MaxCalls
    /\ sinceManual' = 0
    \* tick is recreated, and the effect re-run, when lastManualSimTime changed:
    \* always, unless Date.now() still returns the value of the previous click.
    /\ effectPending' \in (IF sinceManual = 0 THEN {0, 1} ELSE {1})
    /\ simLoading' = TRUE
    /\ calls' = calls + 1
    /\ procs' = [procs EXCEPT ![calls + 1] =
                     [NewProc("policy", "sim", govOnline, SimBody(Steps, policy))
                         EXCEPT !.seq = NextSeq]]
    /\ UNCHANGED <<mounted, timerIn, simOnline, govOnline,
                   nodes, timestep, lastSimMetrics, gov>>

\* The onSimulate prop of PolicyChat is invoked with some policy.
ApplyPolicy(policy) ==
    /\ applyPolicy(policy)
    /\ UNCHANGED <<apiVars, chatVars, sideVars>>

\* The simulate request of a step settles: the rest of stepSim, then the
\* caller starts fetchGov and fetchNodes.
SimSettle(p, o) ==
    /\ effectPending = 0
    /\ procs[p].pc = "sim"
    /\ o \in SimOutcomes(procs[p].seq)
    /\ LET step == stepSimResult(simulate(o).value) IN
       IF step = None
       THEN /\ procs' = [procs EXCEPT ![p] = Idle]
            /\ UNCHANGED <<lastSimMetrics, timestep, gov>>
       ELSE /\ lastSimMetrics' = SetState(lastSimMetrics, step.m)
            /\ timestep' = SetState(timestep, step.ts)
            /\ gov' = IF procs[p].govUp THEN gov
                      ELSE SetState(gov, fetchGovDerived(gov, step.m, step.ts))
            /\ procs' = [procs EXCEPT ![p] = Fetching(procs[p].kind, step, procs[p].govUp)]
    /\ simLoading' = SetState(simLoading, FALSE)
    /\ UNCHANGED <<sinceManual, mounted, effectPending, timerIn,
                   simOnline, govOnline, nodes, calls>>
    /\ UNCHANGED <<apiVars, chatVars, sideVars>>

\* A call after one of its two parallel fetches has finished: Promise.all
\* resolves, and the call returns, when the other one has finished too.
AfterFetch(proc) ==
    IF proc.govPending \/ proc.nodesPending THEN proc ELSE Idle

\* The ten governance gets of a live fetchGov have all settled.
GovSettle(p, failed, bad) ==
    /\ effectPending = 0
    /\ procs[p].pc = "fetch"
    /\ procs[p].govPending
    /\ LET results == [f \in GovFields |->
                          get(IF f \in failed THEN bad
                              ELSE Http(TRUE, JsonBody(GovObject(f, p)))).value]
       IN gov' = SetState(gov, fetchGovLive(gov, results))
    /\ procs' = [procs EXCEPT ![p] = AfterFetch([procs[p] EXCEPT !.govPending = FALSE])]
    /\ UNCHANGED <<sinceManual, mounted, effectPending, timerIn,
                   simOnline, govOnline, nodes, timestep, simLoading, lastSimMetrics,
                   calls>>
    /\ UNCHANGED <<apiVars, chatVars, sideVars>>

\* The /api/nodes get of fetchNodes has settled.
NodesSettle(p, o) ==
    /\ effectPending = 0
    /\ procs[p].pc = "fetch"
    /\ procs[p].nodesPending
    /\ o \in NodesOutcomes
    /\ nodes' = SetState(nodes, fetchNodes(get(o).value, stressFactor(procs[p].step.m)))
    /\ procs' = [procs EXCEPT ![p] = AfterFetch([procs[p] EXCEPT !.nodesPending = FALSE])]
    /\ UNCHANGED <<sinceManual, mounted, effectPending, timerIn,
                   simOnline, govOnline, timestep, simLoading, lastSimMetrics, gov,
                   calls>>
    /\ UNCHANGED <<apiVars, chatVars, sideVars>>

\* Time passes.
Advance ==
    /\ effectPending = 0
    /\ sinceManual' = Min(sinceManual + ClockStep, ManualOverrideWindow)
    /\ timerIn' = IF timerIn = NoTimer THEN NoTimer ELSE Max(timerIn - ClockStep, 0)
    /\ UNCHANGED <<mounted, effectPending, viewVars,
                   procs, calls>>
    /\ UNCHANGED <<apiVars, chatVars, sideVars>>

\* The route changes: React runs the effect cleanup and discards the state
\* of the component; the calls in progress go on.
Unmount ==
    /\ mounted
    /\ effectPending = 0
    /\ mounted' = FALSE
    /\ timerIn' = clearInterval(timerIn)
    /\ simOnline' = FALSE
    /\ govOnline' = FALSE
    /\ nodes' = NoNodes
    /\ timestep' = 0
    /\ simLoading' = FALSE
    /\ lastSimMetrics' = Null
    /\ gov' = [f \in GovFields |-> Null]
    /\ UNCHANGED <<sinceManual, effectPending, procs, calls>>
    /\ UNCHANGED <<apiVars, chatVars, sideVars>>

-----------------------------------------------------------------------------
(* PolicyChat.tsx as rendered by the dashboard:                            *)
(* <PolicyChat onSimulate={applyPolicy} />                                 *)

\* The onSimulate prop.
onSimulate(policy) == applyPolicy(policy)

\* The 'Simulate This' button is rendered under a message:
\* msg.result && Object.keys(msg.result.delta).length > 0, assistant branch.
Offered_anyResult(msg) ==
    /\ msg.role = "assistant"
    /\ "result" \in DOMAIN msg

Offered(msg) ==
    /\ msg.role = "assistant"
    /\ "result" \in DOMAIN msg
    /\ msg.result.delta # {}

\* A send that applies the policy of an analysis it receives by itself.
AutoApply_onResult(reply) == Offered(reply)

\* send calls onSimulate for the reply it appends: never, onSimulate is called
\* by the button only.
AutoApply(reply) == FALSE

\* The policy-chat request settles: the rest of send runs.
ChatSettle(o) ==
    /\ chatReq # NoReq
    /\ messages' = Append(messages, sendReply(o))
    /\ loading' = FALSE
    /\ chatInFlight' = chatInFlight - 1
    /\ chatReq' = IF chatInFlight > 1 THEN chatReq ELSE NoReq
    /\ chatOutcome' = o
    /\ UNCHANGED <<input, chatSent, appliedIndex, appliedTimers>>
    /\ IF AutoApply(sendReply(o))
       THEN onSimulate(sendReply(o).result.policy_used)
       ELSE UNCHANGED dashVars
    /\ UNCHANGED <<apiVars, sideVars>>

\* onClick of 'Simulate This' under message i: setAppliedIndex(i),
\* onSimulate(msg.result.policy_used), setTimeout(..., 3000).
SimulateThis(i) ==
    /\ i \in 1..Len(messages)
    /\ Offered(messages[i])
    /\ appliedIndex' = i
    /\ onSimulate(messages[i].result.policy_used)
    /\ appliedTimers' = appliedTimers + 1
    /\ UNCHANGED <<input, messages, loading, chatReq, chatOutcome, chatSent, chatInFlight>>
    /\ UNCHANGED <<apiVars, sideVars>>

\* A timeout set by a click fires: setAppliedIndex(null).
AppliedReset ==
    /\ appliedTimers > 0
    /\ appliedIndex' = NoIndex
    /\ appliedTimers' = appliedTimers - 1
    /\ UNCHANGED <<input, messages, loading, chatReq, chatOutcome, chatSent, chatInFlight>>
    /\ UNCHANGED <<apiVars, dashVars, sideVars>>

-----------------------------------------------------------------------------
(* deriveLocalGovData: the numbers it computes *)

\* Quantities are integers here: average_social_vulnerability in hundredths
\* (as in stressFactor), emissions, water consumption and the SDG score in
\* units.  Each result is kept as a multiple of 1 / Scale[field], which makes
\* every division of the code exact.
MetricFields == {"total_emissions", "total_water_consumption",
                 "average_social_vulnerability", "composite_sdg_score"}
FullMetrics ==
    [total_emissions              : {-1000000, -301, 0, 299, 501},
     total_water_consumption      : {-1000000, -201, 0, 85, 3501},
     average_social_vulnerability : {-1000000, -67, 0, 40, 66},
     composite_sdg_score          : {45}]

\* The simMetrics arguments: null, and objects in which each field is a
\* number (negative ones included) or missing.
MetricsInputs ==
    {Null} \cup
    {[f \in present |-> full[f]] : full \in FullMetrics, present \in SUBSET MetricFields}

\* simMetrics?.field ?? dflt, without Math.abs.
absOr_signed(simMetrics, field, dflt) ==
    IF field \in DOMAIN simMetrics THEN simMetrics[field] ELSE dflt

\* Math.abs(simMetrics?.field ?? dflt)
absOr(simMetrics, field, dflt) ==
    IF field \in DOMAIN simMetrics THEN Abs(simMetrics[field]) ELSE Abs(dflt)

Scale ==
    [reservoir_level_percent |-> 50, system_stability_score |-> 5,
     water_stress_index |-> 200, carbon_stress_index |-> 300,
     public_pressure_score |-> 200, emission_growth_rate |-> 2000,
     risk_probability |-> 6000, days_until_critical |-> 1]

\* Math.round(n / d) for d > 0: the nearest integer, halves towards +Infinity.
Round(n, d) == (2 * n + d) \div (2 * d)

\* Array.from({ length: 7 }, ...)
ForecastLength == 7

\* One entry of reservoir_projection without its lower clamp.
reservoirEntry_unclamped(water, i) ==
    Round(Max(10 * 500, 80 * 500 - 10 * water) - i * water, 500)

\* Math.max(10, Math.round(baseWaterPercent - i * (water / 500))), where
\* baseWaterPercent is Math.max(10, 80 - water / 50); in units.
reservoirEntry(water, i) ==
    Max(10, Round(Max(10 * 500, 80 * 500 - 10 * water) - i * water, 500))

\* Math.round(baseCO2 + i * (1.2 + emissions / 1000)), where baseCO2 is
\* 420 + emissions / 10; in units.
emissionEntry(emissions, i) ==
    Round(420 * 1000 + 100 * emissions + i * (1200 + emissions), 1000)

\* The fields of deriveLocalGovData(simMetrics, timestep) that are clamped,
\* and the two projections of its forecast (entry i of the code at i + 1).
deriveLocalGovNumbers(simMetrics) ==
    LET emissions == absOr(simMetrics, "total_emissions", 120)
        water     == absOr(simMetrics, "total_water_consumption", 85)
        vuln      == absOr(simMetrics, "average_social_vulnerability", 40)
    IN [\* Math.max(10, 80 - water / 50)
        reservoir_level_percent |-> Max(10 * 50, 80 * 50 - water),
        \* Math.max(0, 100 - vuln * 60 - (emissions / 5))
        system_stability_score  |-> Max(0, 100 * 5 - 3 * vuln - emissions),
        \* Math.min(1, water / 200)
        water_stress_index      |-> Min(200, water),
        \* Math.min(1, emissions / 300)
        carbon_stress_index     |-> Min(300, emissions),
        \* Math.min(1, vuln * 1.5)
        public_pressure_score   |-> Min(200, 3 * vuln),
        \* Math.min(0.15, emissions / 2000)
        emission_growth_rate    |-> Min(300, emissions),
        \* Math.min(0.95, vuln * 0.8 + emissions / 600)
        risk_probability        |-> Min(5700, 48 * vuln + 10 * emissions),
        \* Math.max(1, Math.round(50 - water / 10))
        days_until_critical     |-> Max(1, Round(500 - water, 10)),
        reservoir_projection    |-> [i \in 1..ForecastLength |-> reservoirEntry(water, i - 1)],
        emission_projection     |-> [i \in 1..ForecastLength |-> emissionEntry(emissions, i - 1)]]

DeriveInit ==
    /\ dMetrics = None
    /\ dOut = None

\* A caller picks the argument of the next call.
PickMetrics(m) ==
    /\ dMetrics' = m
    /\ dOut' = None
    /\ UNCHANGED <<apiVars, chatVars, dashVars, genVars, fetchGovVars, orbitVars>>

\* deriveLocalGovData(dMetrics, timestep) returns.
Derive ==
    /\ dMetrics # None
    /\ dOut = None
    /\ dOut' = deriveLocalGovNumbers(dMetrics)
    /\ UNCHANGED <<dMetrics, apiVars, chatVars, dashVars, genVars, fetchGovVars, orbitVars>>

-----------------------------------------------------------------------------
(* makeRng and generateSyntheticNodes: the list it generates *)

\* s * 1664525 + 1013904223 stays below 2^53 for s < 2^28, so the double the
\* code computes is the exact integer, and ToInt32 followed by & 0xfffffff
\* leaves its low 28 bits.  The product is formed by doubling, reduced at each
\* step, so that no intermediate value needs more than 31 bits.
Multiplier == 1664525
Increment  == 1013904223
Mask28     == 268435455            \* 0xfffffff
DefaultSeed == 42                  \* seed = 42
NodeCount  == 200                  \* Array.from({ length: 200 }, ...)
DrawsPerNode == 4                  \* rand() calls of one node

RECURSIVE MulMod(_, _, _)
MulMod(x, y, m) ==
    IF y = 0 THEN 0
    ELSE (2 * MulMod(x, y \div 2, m) + (y % 2) * (x % m)) % m

\* The generator with a mask of 29 bits.
lcg_wide(s) ==
    (MulMod(s, Multiplier, 2 * (Mask28 + 1)) + (Increment % (2 * (Mask28 + 1))))
        % (2 * (Mask28 + 1))

\* s = (s * 1664525 + 1013904223) & 0xfffffff
lcg(s) ==
    (MulMod(s, Multiplier, Mask28 + 1) + (Increment % (Mask28 + 1))) % (Mask28 + 1)

\* let s = seed
makeRng(seed) == seed

\* Numbers too wide for one integer are kept as <<high, low>> in base 2^14.
Base == 16384
Wide(hi, lo) == <<hi + lo \div Base, lo % Base>>
WideLeq(a, b) == a[1] < b[1] \/ (a[1] = b[1] /\ a[2] <= b[2])
WideZero == <<0, 0>>
\* 1.0 in units of 1 / (200 * 0xfffffff)
WideOne == Wide(200 * (Mask28 \div Base), 200 * (Mask28 % Base))

\* Math.min(1, (rand() * 0.5) + stressFactor * 0.5 + rand() * 0.15), where the
\* two rand() results are r3 / 0xfffffff and r4 / 0xfffffff and stressFactor is
\* sf hundredths; in units of 1 / (200 * 0xfffffff).
syntheticStress(r3, r4, sf) ==
    LET x == Wide(100 * (r3 \div Base) + 30 * (r4 \div Base) + sf * (Mask28 \div Base),
                  100 * (r3 % Base) + 30 * (r4 % Base) + sf * (Mask28 % Base))
    IN IF WideLeq(x, WideOne) THEN x ELSE WideOne

\* The node the callback of Array.from returns.  lat and lon are kept as the
\* rand() result they are computed from (CL - R + rand() * R * 2), emissions
\* (stress * 400) is left out.
SyntheticNode(id, draws, sf) ==
    [id |-> id, lat |-> draws[1], lon |-> draws[2],
     stress |-> syntheticStress(draws[3], draws[4], sf), vulnerability |-> sf]

\* The stress factors the dashboard passes:
\* Math.min(1, Math.abs(m.average_social_vulnerability ?? 0.35) + 0.1)
StressFactors == {stressFactor(m) : m \in {[average_social_vulnerability |-> 0],
                                            [timestep |-> 1],
                                            [average_social_vulnerability |-> 1000000]}}

\* No call of generateSyntheticNodes yet.
NoCall == -1

GenInit ==
    /\ gSf = NoCall
    /\ gRng = NoCall
    /\ gDraws = <<>>
    /\ gOut = <<>>
    /\ gPrev = None

\* generateSyntheticNodes(sf) is called: const rand = makeRng(seed).
CallGenerate(sf) ==
    /\ gSf = NoCall \/ Len(gOut) = NodeCount
    /\ gPrev' = IF gSf = NoCall THEN None ELSE [sf |-> gSf, list |-> gOut]
    /\ gSf' = sf
    /\ gRng' = makeRng(DefaultSeed)
    /\ gDraws' = <<>>
    /\ gOut' = <<>>
    /\ UNCHANGED <<apiVars, chatVars, dashVars, deriveVars, fetchGovVars, orbitVars>>

\* One rand() call of the node being built.
Rand ==
    /\ gSf # NoCall
    /\ Len(gOut) < NodeCount
    /\ Len(gDraws) < DrawsPerNode
    /\ gRng' = lcg(gRng)
    /\ gDraws' = Append(gDraws, gRng')
    /\ UNCHANGED <<gSf, gOut, gPrev, apiVars, chatVars, dashVars, deriveVars, fetchGovVars, orbitVars>>

\* The callback of Array.from returns the node with id Len(gOut).
EmitNode ==
    /\ gSf # NoCall
    /\ Len(gDraws) = DrawsPerNode
    /\ gOut' = Append(gOut, SyntheticNode(Len(gOut), gDraws, gSf))
    /\ gDraws' = <<>>
    /\ UNCHANGED <<gSf, gRng, gPrev, apiVars, chatVars, dashVars, deriveVars, fetchGovVars, orbitVars>>

-----------------------------------------------------------------------------
(* fetchGov, called on its own *)

\* The sets of endpoints that fail in one call.
FetchGovFailSets ==
    GovFailSets \cup {{"health"}, {"forecast", "insight"}, DerivedFields,
                      GovFields \ DerivedFields, GovFields \ {"alerts"}}

FetchGovInit ==
    /\ fgCalls = 0
    /\ fgLast = None

\* The gets of call seq: those of the endpoints in failed are answered with
\* bad, the others with the object of their endpoint.
GovResults(seq, failed, bad) ==
    [f \in GovFields |->
        get(IF f \in failed THEN bad ELSE Http(TRUE, JsonBody(GovObject(f, seq)))).value]

\* fetchGov(simMetrics, ts, true) from its call to its return: the ten gets
\* settle and the setters run in the task that resumes after Promise.all.
FetchGovUp(failed, bad) ==
    /\ mounted
    /\ fgCalls < MaxCalls
    /\ fgCalls' = fgCalls + 1
    /\ LET results == GovResults(fgCalls + 1, failed, bad)
       IN /\ gov' = SetState(gov, fetchGovLive(gov, results))
          /\ fgLast' = [govUp |-> TRUE, results |-> results]
    /\ UNCHANGED <<sinceManual, mounted, effectPending, timerIn, simOnline, govOnline,
                   nodes, timestep, simLoading, lastSimMetrics, procs, calls>>
    /\ UNCHANGED <<apiVars, chatVars, deriveVars, genVars, orbitVars>>

\* fetchGov(simMetrics, ts, false): no request, the setters run at once.
FetchGovDown(simMetrics) ==
    /\ mounted
    /\ fgCalls < MaxCalls
    /\ fgCalls' = fgCalls + 1
    /\ gov' = SetState(gov, fetchGovDerived(gov, simMetrics, fgCalls + 1))
    /\ fgLast' = [govUp |-> FALSE, simMetrics |-> simMetrics, ts |-> fgCalls + 1]
    /\ UNCHANGED <<sinceManual, mounted, effectPending, timerIn, simOnline, govOnline,
                   nodes, timestep, simLoading, lastSimMetrics, procs, calls>>
    /\ UNCHANGED <<apiVars, chatVars, deriveVars, genVars, orbitVars>>

-----------------------------------------------------------------------------
(* SimulationView: the polling effect of the orbit simulation view *)

Speeds == {1, 10, 50, 100}        \* the speed buttons
MinPollRate == 500                \* Math.max(500, ...)
PollBudget  == 3000               \* 3000 / speedMultiplier
OrbitClockStep == MinPollRate

\* const pollRateMs = Math.max(500, 3000 / speedMultiplier); the quotient is
\* an integer for every speed of the buttons.
pollRateMs(speed) == Max(MinPollRate, PollBudget \div speed)

InitialMetrics == [t |-> "initial", timestep |-> 0]
\* One entry of data.results.
OrbitResult(seq) == [t |-> "result", step |-> seq]

\* What the simulation service, or the network, answers to the seq-th
\* request: current_timestep = seq.
OrbitOutcomes(seq) ==
    {NetFail,
     Http(FALSE, Unparseable),
     Http(FALSE, JsonBody(SimResponse(TRUE, <<OrbitResult(seq)>>, TRUE, seq))),
     Http(TRUE, Unparseable),
     Http(TRUE, JsonBody(Null)),
     Http(TRUE, JsonBody(SimResponse(FALSE, <<>>, TRUE, seq))),
     Http(TRUE, JsonBody(SimResponse(TRUE, <<>>, TRUE, seq))),
     Http(TRUE, JsonBody(SimResponse(TRUE, <<OrbitResult(seq), OrbitResult(seq + 1)>>, TRUE, seq)))}

\* A fetchMetrics that does not look at response.ok.
fetchMetricsResult_noOkCheck(old, o) ==
    LET res == fetch(o) IN
    IF res.status = "rejected" THEN old
    ELSE LET data == json(res.value) IN
         IF data.status = "rejected" \/ data.value = Null THEN old
         ELSE IF data.value.hasResults /\ Len(data.value.results) > 0
              THEN [t |-> "metrics", latest |-> data.value.results[1],
                    timestep |-> data.value.current_timestep]
              ELSE old

\* fetchMetrics after its await: the metrics on display afterwards.  A
\* rejected fetch, a body that is not JSON and a null body (data.results
\* throws) end in the catch block.
fetchMetricsResult(old, o) ==
    LET res == fetch(o) IN
    IF res.status = "rejected" THEN old
    ELSE IF ~res.value.ok THEN old
    ELSE LET data == json(res.value) IN
         IF data.status = "rejected" \/ data.value = Null THEN old
         ELSE IF data.value.hasResults /\ Len(data.value.results) > 0
              THEN [t |-> "metrics", latest |-> data.value.results[1],
                    timestep |-> data.value.current_timestep]
              ELSE old

\* A cleanup that leaves the timer of its effect run active.
clearPollTimer_leak(timers, interval) == timers

\* return () => clearInterval(interval): the timer of this effect run, the
\* last one set, is cleared; interval is undefined when the run set none.
clearPollTimer(timers, interval) ==
    IF interval /\ Len(timers) > 0 THEN SubSeq(timers, 1, Len(timers) - 1) ELSE timers

OrbitInit ==
    /\ isPlaying = TRUE
    /\ speedMultiplier = 10
    /\ metrics = InitialMetrics
    /\ svMounted = TRUE
    \* StrictMode (main.tsx) runs the effect, its cleanup and the effect again;
    \* a production build runs it once, which gives the state after the two runs.
    /\ svEffects = 2
    /\ svTimers = <<>>
    /\ svInterval = FALSE
    /\ svRequests = {}
    /\ svIssued = 0
    /\ svOutcome = None

OrbitFrame == UNCHANGED <<apiVars, chatVars, dashVars, deriveVars, genVars, fetchGovVars>>

\* The polling effect: cleanup of the previous run, then setInterval when
\* isPlaying.
OrbitRunEffect ==
    /\ svMounted
    /\ svEffects > 0
    /\ svEffects' = svEffects - 1
    /\ LET cleared == clearPollTimer(svTimers, svInterval) IN
       svTimers' = IF isPlaying
                   THEN Append(cleared, [period |-> pollRateMs(speedMultiplier),
                                         in |-> pollRateMs(speedMultiplier)])
                   ELSE cleared
    /\ svInterval' = isPlaying
    /\ UNCHANGED <<isPlaying, speedMultiplier, metrics, svMounted, svRequests,
                   svIssued, svOutcome>>
    /\ OrbitFrame

\* togglePlayMode: clock.shouldAnimate is toggled and copied into isPlaying;
\* React re-runs the effect in the task of the click.
togglePlayMode ==
    /\ svMounted
    /\ svEffects = 0
    /\ isPlaying' = ~isPlaying
    /\ svEffects' = 1
    /\ UNCHANGED <<speedMultiplier, metrics, svMounted, svTimers, svInterval,
                   svRequests, svIssued, svOutcome>>
    /\ OrbitFrame

\* changeSpeed(mult)
changeSpeed(mult) ==
    /\ svMounted
    /\ svEffects = 0
    /\ speedMultiplier' = mult
    /\ svEffects' = IF mult # speedMultiplier THEN 1 ELSE 0
    /\ UNCHANGED <<isPlaying, metrics, svMounted, svTimers, svInterval,
                   svRequests, svIssued, svOutcome>>
    /\ OrbitFrame

\* Timer k fires: fetchMetrics up to its await.  The isPlaying of its closure
\* is the one of the render whose effect set the timer, which is true.
fetchMetrics(k) ==
    /\ svEffects = 0
    /\ k \in 1..Len(svTimers)
    /\ svTimers[k].in = 0
    /\ svIssued < MaxOrbitCalls
    /\ svTimers' = [svTimers EXCEPT ![k].in = svTimers[k].period]
    /\ svIssued' = svIssued + 1
    /\ svRequests' = svRequests \cup {svIssued + 1}
    /\ UNCHANGED <<isPlaying, speedMultiplier, metrics, svMounted, svEffects,
                   svInterval, svOutcome>>
    /\ OrbitFrame

\* A timer that is due fires.
IntervalFires == \E k \in 1..Len(svTimers) : fetchMetrics(k)

\* The request seq is answered, or fails: the rest of fetchMetrics.
OrbitSettle(seq, o) ==
    /\ svEffects = 0
    /\ seq \in svRequests
    /\ o \in OrbitOutcomes(seq)
    /\ svRequests' = svRequests \ {seq}
    /\ svOutcome' = o
    /\ metrics' = IF svMounted THEN fetchMetricsResult(metrics, o) ELSE metrics
    /\ UNCHANGED <<isPlaying, speedMultiplier, svMounted, svEffects, svTimers,
                   svInterval, svIssued>>
    /\ OrbitFrame

\* Time passes.
OrbitAdvance ==
    /\ svEffects = 0
    /\ svTimers # <<>>
    /\ \A k \in 1..Len(svTimers) : svTimers[k].in > 0
    /\ svTimers' = [k \in 1..Len(svTimers) |->
                       [svTimers[k] EXCEPT !.in = Max(svTimers[k].in - OrbitClockStep, 0)]]
    /\ UNCHANGED <<isPlaying, speedMultiplier, metrics, svMounted, svEffects,
                   svInterval, svRequests, svIssued, svOutcome>>
    /\ OrbitFrame

\* The view unmounts: React runs the cleanup of the effect and discards the
\* state; the requests in flight go on.
OrbitUnmount ==
    /\ svMounted
    /\ svEffects = 0
    /\ svMounted' = FALSE
    /\ svTimers' = clearPollTimer(svTimers, svInterval)
    /\ svInterval' = FALSE
    /\ metrics' = InitialMetrics
    /\ UNCHANGED <<isPlaying, speedMultiplier, svEffects, svRequests, svIssued,
                   svOutcome>>
    /\ OrbitFrame

-----------------------------------------------------------------------------
(* Specifications *)

Init == ApiInit /\ ChatInit /\ DashInit /\ DeriveInit /\ GenInit /\ FetchGovInit /\ OrbitInit

ApiNext ==
    \/ \E m \in Methods : ApiInvoke(m)
    \/ \E o \in Outcomes("get") : ApiSettle(o)

ChatNext ==
    \/ \E s \in Inputs : TypeInput(s)
    \/ SendInput
    \/ \E s \in SUGGESTIONS : SendSuggestion(s)
    \/ \E o \in ChatOutcomes : ChatSettle(o)
    \/ clear

DashNext ==
    \/ RunEffect
    \/ IntervalTick
    \/ \E p \in Slots, so \in PingOutcomes, go \in PingOutcomes : PingSettle(p, so, go)
    \/ \E policy \in Policies : ApplyPolicy(policy)
    \/ \E p \in Slots : \E o \in SimOutcomes(procs[p].seq) : SimSettle(p, o)
    \/ \E p \in Slots, failed \in GovFailSets, bad \in GovFailures : GovSettle(p, failed, bad)
    \/ \E p \in Slots : \E o \in NodesOutcomes : NodesSettle(p, o)
    \/ Advance
    \/ Unmount

DeriveNext ==
    \/ \E m \in MetricsInputs : PickMetrics(m)
    \/ Derive

\* The dashboard with its chat, from mount until the poll timer fires again:
\* the calls in progress are the ticks of the mount and the applyPolicy calls
\* of the chat's button.  The question is asked with a suggestion button and answered in one of the
\* ways that differ for the button: no response, a non-2xx response, an
\* analysis without delta, and analyses with a delta for either policy.
AppChatOutcomes ==
    {NetFail,
     Http(FALSE, JsonBody(PolicyResult(1, {"emissions"}))),
     Http(TRUE, JsonBody(PolicyResult(2, {}))),
     Http(TRUE, JsonBody(PolicyResult(1, {"emissions"}))),
     Http(TRUE, JsonBody(PolicyResult(2, {"emissions"})))}

AppNext ==
    \/ \E s \in SUGGESTIONS : SendSuggestion(s)
    \/ \E o \in AppChatOutcomes : ChatSettle(o)
    \/ \E i \in 1..Len(messages) : SimulateThis(i)
    \/ AppliedReset
    \/ RunEffect
    \/ \E p \in Slots, so \in PingOutcomes, go \in PingOutcomes : PingSettle(p, so, go)
    \/ \E p \in Slots : \E o \in SimOutcomes(procs[p].seq) : SimSettle(p, o)
    \/ \E p \in Slots, failed \in GovFailSets, bad \in GovFailures : GovSettle(p, failed, bad)
    \/ \E p \in Slots : \E o \in NodesOutcomes : NodesSettle(p, o)

GenNext ==
    \/ \E sf \in StressFactors : CallGenerate(sf)
    \/ Rand
    \/ EmitNode

FetchGovNext ==
    \/ \E failed \in FetchGovFailSets, bad \in GovFailures : FetchGovUp(failed, bad)
    \/ \E m \in {Null, Metrics(fgCalls + 1)} : FetchGovDown(m)

OrbitNext ==
    \/ OrbitRunEffect
    \/ togglePlayMode
    \/ \E mult \in Speeds : changeSpeed(mult)
    \/ IntervalFires
    \/ \E seq \in 1..MaxOrbitCalls : \E o \in OrbitOutcomes(seq) : OrbitSettle(seq, o)
    \/ OrbitAdvance
    \/ OrbitUnmount

ApiSpec  == Init /\ [][ApiNext]_vars
OrbitSpec == Init /\ [][OrbitNext]_vars
FetchGovSpec == Init /\ [][FetchGovNext]_vars
GenSpec  == Init /\ [][GenNext]_vars
AppSpec  == Init /\ [][AppNext]_vars
DeriveSpec == Init /\ [][DeriveNext]_vars
ChatSpec == Init /\ [][ChatNext]_vars
DashSpec == Init /\ [][DashNext]_vars

\* The policy-chat request carries AbortSignal.timeout(20000): it settles.
ChatLive == ChatSpec /\ WF_vars(\E o \in ChatOutcomes : ChatSettle(o))

-----------------------------------------------------------------------------
(* Properties of the HTTP client (ApiSpec) *)

\* The request did not produce a parsed body: network failure, abort by the
\* timeout, non-2xx status, or a body that is not JSON.
NoParsedBody(o) ==
    \/ o.kind # "http"
    \/ ~o.ok
    \/ o.body.t # "text"
    \/ ~o.body.json

\* C1: every EtwinAPI GET method resolves and never rejects: to null when the
\* request fails at the network level, is aborted by the timeout, returns a
\* non-2xx status or an unparseable body, and to the parsed body otherwise.
C1_GetResolves ==
    (apiPc = "settled" /\ apiMethod \in GetMethods) =>
        /\ apiResult.status = "fulfilled"
        /\ apiResult.value = IF NoParsedBody(apiOutcome) THEN Null
                             ELSE apiOutcome.body.parsed

\* A timeline call aborted by the 5000 ms timeout has resolved to null.
C1_Witness ==
    /\ apiPc = "settled"
    /\ apiMethod = "timeline"
    /\ apiOutcome = TimedOut
    /\ apiResult = Fulfilled(Null)

\* C2 (as claimed): every EtwinAPI POST method resolves to null whenever the
\* request fails at the network level or the server answers non-2xx.
C2_PostFailuresGiveNull ==
    (/\ apiPc = "settled"
     /\ apiMethod \in PostMethods
     /\ (apiOutcome.kind = "netfail" \/ (apiOutcome.kind = "http" /\ ~apiOutcome.ok)))
    => apiResult = Fulfilled(Null)

-----------------------------------------------------------------------------
(* Properties of the dashboard (DashSpec) *)

\* A continuation of the tick in slot p runs in this step.
TickActs(p) == procs[p].kind = "tick" /\ procs'[p] # procs[p]

\* The tick in slot p returns in this step.
TickCompletes(p) == procs[p].kind = "tick" /\ procs'[p].pc = "idle"

\* The governance ping of the tick that returns in this step had failed.
GovPingFailed(p) ==
    IF procs[p].pc = "ping" THEN ~govOnline' ELSE ~procs[p].govUp

\* tick is invoked in this step, by the effect or by the interval timer.
TickInvoked ==
    \/ effectPending' < effectPending
    \/ timerIn = 0 /\ timerIn' = PollInterval

\* The object deriveLocalGovData computes for field f from a step.
DerivedFrom(f, step) ==
    [t |-> "derived", field |-> f, simMetrics |-> step.m, cycle |-> step.ts]

\* C4 (as claimed): after every completed, non-suppressed tick whose
\* governance ping failed, state, climate, water, environment, economy, social
\* and forecast are the derived fallback values.
C4_FallbackAfterEveryTick ==
    [][\A p \in Slots :
         (mounted /\ TickCompletes(p) /\ GovPingFailed(p))
         => \A f \in DerivedFields : gov'[f].t = "derived"]_vars

\* C4 (amended): a tick whose governance ping failed writes the derived
\* fallback values of its step into the seven fields, and only those, when its
\* simulate step returns a non-empty result; when its simulation ping failed
\* or its step returned nothing it writes no governance data.
C4_FallbackWhenStepSucceeds ==
    [][\A p \in Slots :
         (mounted /\ TickActs(p) /\ procs[p].pc \in {"ping", "sim"} /\ GovPingFailed(p))
         => IF procs'[p].pc = "fetch"
            THEN /\ \A f \in DerivedFields : gov'[f] = DerivedFrom(f, procs'[p].step)
                 /\ \A f \in GovFields \ DerivedFields : gov'[f] = gov[f]
            ELSE gov' = gov]_vars

\* A tick with a failed governance ping is past its step and the forecast on
\* display is the one derived from that step.
C4_Witness ==
    \E p \in Slots :
        /\ procs[p].kind = "tick"
        /\ procs[p].pc = "fetch"
        /\ ~procs[p].govUp
        /\ gov["forecast"] = DerivedFrom("forecast", procs[p].step)

\* The poll (step) a governance value was received or derived in.
ValuePoll(v) == IF v.t = "derived" THEN v.cycle ELSE v.poll

\* C5 (as claimed): once a poll has completed, no governance value object
\* still holds a value received in an earlier poll.
C5_NothingSurvivesAPoll ==
    [][\A p \in Slots :
         (mounted /\ TickCompletes(p))
         => \A f \in GovFields :
               gov'[f] = Null \/ ValuePoll(gov'[f]) = p]_vars

\* C5 (amended): a governance value object is only ever replaced by a whole
\* object of the call that writes it: the object its endpoint returned to
\* that call, or the object derived from that call's step.  Fields the call
\* does not write keep the value of an earlier poll (until the component
\* unmounts).
C5_ReplacedWholesale ==
    [][(mounted' /\ gov' # gov) =>
       \A f \in GovFields :
         (gov'[f] # gov[f])
         => \E p \in Slots :
               /\ procs'[p] # procs[p]
               /\ \/ /\ procs[p].pc = "fetch"
                     /\ gov'[f] = GovObject(f, p)
                  \/ /\ procs[p].pc = "sim"
                     /\ procs'[p].pc = "fetch"
                     /\ gov'[f] = DerivedFrom(f, procs'[p].step)]_vars

\* The alerts of an earlier live poll are still held next to the climate
\* derived in a later poll.
C5_Witness ==
    /\ gov["alerts"].t = "object"
    /\ gov["climate"].t = "derived"
    /\ ValuePoll(gov["alerts"]) < ValuePoll(gov["climate"])

\* C6: a tick that starts less than 15000 ms after lastManualSimTime returns
\* immediately: it sends no request and changes no dashboard state.
C6_SuppressedTickDoesNothing ==
    [][(TickInvoked /\ sinceManual < ManualOverrideWindow)
       => UNCHANGED <<procs, calls, viewVars>>]_vars

\* The interval timer has fired inside the window of an earlier applyPolicy:
\* it has just been rescheduled, later than lastManualSimTime and less than
\* 15000 ms after it, and no call is in progress.
C6_Witness ==
    /\ mounted
    /\ effectPending = 0
    /\ sinceManual > 0
    /\ sinceManual < ManualOverrideWindow
    /\ timerIn = PollInterval
    /\ \A p \in Slots : procs[p].pc = "idle"

\* C7 (as claimed): during the 15 s window after applyPolicy the poll loop
\* writes no dashboard state, also not by a tick that was already in flight.
C7_NoPollWriteInWindow ==
    [][(/\ mounted
        /\ sinceManual < ManualOverrideWindow
        /\ \E p \in Slots : TickActs(p))
       => UNCHANGED <<lastSimMetrics, timestep, gov, nodes, simOnline, govOnline>>]_vars

\* The request a call in progress is waiting for.
AwaitedRequest(proc) ==
    CASE proc.pc = "ping"  -> "ping"
      [] proc.pc = "sim"   -> "simulate"
      [] proc.pc = "fetch" -> "get"

\* C8 (as claimed): every network call the client has in flight carries a
\* fixed timeout (so that every started tick and policy step completes).
C8_EveryRequestTimesOut ==
    \A p \in Slots :
        procs[p].pc # "idle" => RequestTimeout(AwaitedRequest(procs[p])) # NoTimeout

\* C10 (as claimed): after the dashboard unmounts no further simulate request
\* is issued on its behalf.
C10_NoSimulateAfterUnmount ==
    [][~mounted => \A p \in Slots : procs'[p].pc = "sim" => procs[p].pc = "sim"]_vars

\* C10 (amended): after the dashboard unmounts the interval timer is cleared
\* and no further tick starts (a tick already in flight is not cancelled).
C10_NoTickAfterUnmount ==
    [][~mounted =>
         /\ timerIn = NoTimer
         /\ timerIn' = NoTimer
         /\ \A p \in Slots : procs[p].pc = "idle" => procs'[p] = procs[p]]_vars

\* Unmounted, the timer cleared, with a tick still in flight.
C10_Witness ==
    /\ ~mounted
    /\ timerIn = NoTimer
    /\ \E p \in Slots : procs[p].kind = "tick" /\ procs[p].pc = "sim"

\* C12: the fetches of a tick come in stages: its simulate request is issued
\* only when both pings have resolved and the simulation ping succeeded, its
\* governance and node fetches only when that simulate request has returned a
\* non-empty result.
C12_StagedFetches ==
    [][\A p \in Slots :
         /\ (procs'[p].pc = "ping" /\ procs[p].pc # "ping")
            => procs[p].pc = "idle"
         /\ (procs'[p].kind = "tick" /\ procs'[p].pc = "sim" /\ procs[p].pc # "sim")
            => /\ procs[p].pc = "ping"
               /\ procs'[p].body = SimBody(Steps, NoPolicy)
               /\ (mounted => simOnline')
         /\ (procs'[p].kind = "tick" /\ procs'[p].pc = "fetch" /\ procs[p].pc # "fetch")
            => /\ procs[p].pc = "sim"
               /\ procs'[p].step # None
               /\ procs'[p].step.m.t = "metrics"
               /\ procs'[p].nodesPending
               /\ procs'[p].govPending = procs[p].govUp
               /\ (mounted => lastSimMetrics' = procs'[p].step.m)]_vars

\* A tick has reached its last stage: its live governance fetch and its node
\* fetch are in flight.
C12_Witness ==
    \E p \in Slots :
        /\ procs[p].kind = "tick"
        /\ procs[p].pc = "fetch"
        /\ procs[p].govPending
        /\ procs[p].nodesPending
        /\ simOnline

\* C13: a tick whose simulation ping fails writes simOnline and govOnline
\* only: metrics, timestep, governance fields and nodes keep their values and
\* the tick returns without a simulate, governance or node request, also when
\* the governance ping succeeded.
C13_FailedSimPingWritesNothing ==
    [][\A p \in Slots :
         (mounted /\ procs[p].pc = "ping" /\ procs'[p] # procs[p] /\ ~simOnline')
         => /\ procs'[p] = Idle
            /\ \A q \in Slots \ {p} : procs'[q] = procs[q]
            /\ UNCHANGED <<lastSimMetrics, timestep, gov, nodes, simLoading>>]_vars

\* A tick has returned after a failed simulation ping and a successful
\* governance ping.
C13_Witness ==
    /\ mounted
    /\ ~simOnline
    /\ govOnline
    /\ \A p \in Slots : procs[p] = Idle
    /\ gov = [f \in GovFields |-> Null]

\* The result of a simulate call carries no step: it is null, or its results
\* array is missing or empty.
NoResults(result) ==
    \/ result = Null
    \/ ~result.hasResults
    \/ Len(result.results) = 0

\* C14: when simulate returns null or a response without results, stepSim
\* returns null and leaves lastSimMetrics and timestep unchanged, and its
\* caller returns without a governance fetch or a node fetch.
C14_EmptyStepStopsTheCall ==
    /\ \A p \in Slots : \A o \in SimOutcomes(p) :
          NoResults(simulate(o).value) <=> (stepSimResult(simulate(o).value) = None)
    /\ [][\A p \in Slots :
            (procs[p].pc = "sim" /\ procs'[p] # procs[p] /\ procs'[p].step = None)
            => /\ procs'[p] = Idle
               /\ \A q \in Slots \ {p} : procs'[q] = procs[q]
               /\ UNCHANGED <<lastSimMetrics, timestep, gov, nodes>>]_vars

\* applyPolicy has returned inside its window and no step has ever produced
\* metrics: its simulate call came back without results.
C14_Witness ==
    /\ mounted
    /\ sinceManual < ManualOverrideWindow
    /\ \A p \in Slots : procs[p] = Idle
    /\ ~simLoading
    /\ lastSimMetrics = Null
    /\ timestep = 0

\* applyPolicy is invoked in this step.
PolicyInvoked == \E p \in Slots : procs'[p].kind = "policy" /\ procs[p].kind # "policy"

\* C15: every applyPolicy opens a window of 15000 ms, whatever becomes of its
\* simulate step; ticks that start inside the window do nothing, the interval
\* timer stays armed, and a tick that starts 15000 ms or more after the last
\* applyPolicy starts its pings.
C15_WindowThenResume ==
    /\ [][PolicyInvoked => sinceManual' = 0]_vars
    /\ [][sinceManual' < sinceManual => PolicyInvoked]_vars
    /\ [][TickInvoked =>
            IF sinceManual < ManualOverrideWindow
            THEN UNCHANGED <<procs, calls, viewVars>>
            ELSE \E p \in Slots :
                    /\ procs[p].pc = "idle"
                    /\ procs'[p].kind = "tick"
                    /\ procs'[p].pc = "ping"]_vars
    /\ []((mounted /\ effectPending = 0) => timerIn \in 0..PollInterval)

\* Polling has resumed: a tick started after the window of the applyPolicy
\* call before it.
C15_Witness ==
    /\ mounted
    /\ procs[1].kind = "policy"
    /\ procs[2].kind = "tick"
    /\ procs[2].pc = "ping"
    /\ sinceManual = ManualOverrideWindow

\* C16: a completed fetchNodes leaves the list /api/nodes returned when that
\* list is not empty and 200 synthetic nodes otherwise; once set, nodes is
\* never empty while the dashboard is mounted.
C16_NodesNeverEmpty ==
    /\ \A o \in NodesOutcomes : \A sf \in {0, 45, 100} :
          LET data == get(o).value
              set  == fetchNodes(data, sf)
          IN IF data # Null /\ Len(data.nodes) > 0
             THEN set.from = "api" /\ set.raw = data.nodes /\ set.length = Len(data.nodes)
             ELSE set.from = "synthetic" /\ set.length = 200
    /\ [][\A p \in Slots :
            (mounted /\ procs[p].nodesPending /\ ~procs'[p].nodesPending)
            => /\ nodes'.length > 0
               /\ nodes'.from \in {"api", "synthetic"}
               /\ nodes'.from = "synthetic" => nodes'.length = 200]_vars
    /\ [][(mounted' /\ nodes.length > 0) => nodes'.length > 0]_vars

\* A fetchNodes that got no list has set the 200 synthetic nodes.
C16_Witness ==
    /\ mounted
    /\ nodes.from = "synthetic"
    /\ nodes.length = 200

\* The call in slot p has requests that are not answered yet.
RequestsPending(p) == procs[p].pc # "idle"

\* C26 (as claimed): a tick starts its pings, and its simulate request, only
\* when no request of another tick or of a manual policy step is pending.
C26_OneTickAtATime ==
    [][\A p \in Slots :
         (/\ procs'[p].kind = "tick"
          /\ procs'[p].pc \in {"ping", "sim"}
          /\ procs'[p].pc # procs[p].pc)
         => \A q \in Slots \ {p} : ~RequestsPending(q)]_vars

\* C27 (as claimed): the simulation service numbers its steps in the order
\* of the requests (NextSeq, SimOutcomes); while the dashboard is mounted its
\* timestep never decreases and lastSimMetrics is never replaced by the
\* metrics of an earlier step.
C27_StepsAppliedInOrder ==
    [][mounted' =>
         /\ timestep' >= timestep
         /\ lastSimMetrics # Null =>
               /\ lastSimMetrics' # Null
               /\ lastSimMetrics'.step >= lastSimMetrics.step]_vars

\* C28 (as claimed): while the dashboard is mounted simLoading is true
\* exactly when a simulate request of stepSim is in flight.
C28_LoadingWhileStepPending ==
    mounted => (simLoading <=> \E p \in Slots : procs[p].pc = "sim")

-----------------------------------------------------------------------------
(* Properties of the policy chat (ChatLive) *)

\* The request of send settles in this step.
ChatSettles == chatReq # NoReq /\ chatReq' = NoReq

\* The reply appended in this step.
Reply == messages'[Len(messages')]

ChatRequestIssued == chatInFlight' > chatInFlight

\* C18: send does nothing when the question is empty after trimming or a
\* request is loading: a request is issued, and a user message appended, only
\* for a non-blank question while not loading; while loading nothing but the
\* arrival of the response or a clear changes the chat, and with a blank input
\* box send() changes nothing.
C18_RejectedSendIsNoOp ==
    /\ [][ChatRequestIssued =>
            /\ ~loading
            /\ chatReq'.question # ""
            /\ trim(chatReq'.question) = chatReq'.question]_vars
    /\ [][(Len(messages') > Len(messages) /\ ~ChatSettles) => ChatRequestIssued]_vars
    /\ [][(loading /\ ~ChatSettles) =>
            /\ UNCHANGED <<input, loading, chatReq, chatInFlight>>
            /\ (messages' = messages \/ messages' = <<>>)]_vars
    /\ [][(~loading /\ trim(input) = "" /\ input' = input /\ Len(messages) > 0) =>
            /\ UNCHANGED <<loading, chatReq, chatInFlight>>
            /\ (messages' = messages \/ messages' = <<>>)]_vars

\* The transcript was cleared while a request is loading: the suggestion
\* buttons are shown and call send while loading is true.
C18_Witness ==
    /\ loading
    /\ Len(messages) = 0
    /\ chatInFlight = 1
    /\ chatSent = 1

\* C19: at most one policy-chat request is in flight, and loading is true
\* exactly while one is.
C19_OneRequestAtATime ==
    /\ chatInFlight \in {0, 1}
    /\ loading <=> (chatInFlight = 1)
    /\ (chatReq # NoReq) <=> (chatInFlight = 1)

\* A second question is in flight after the first one was answered.
C19_Witness ==
    /\ loading
    /\ chatInFlight = 1
    /\ chatSent = 2
    /\ Len(messages) = 3

\* C29 (as claimed): the transcript alternates user and assistant messages
\* and starts with a user message.
C29_TranscriptAlternates ==
    \A i \in 1..Len(messages) :
        messages[i].role = (IF i % 2 = 1 THEN "user" ELSE "assistant")

-----------------------------------------------------------------------------
(* Properties of deriveLocalGovData (DeriveSpec) *)

\* C20: for every simMetrics, null and negative values included, the derived
\* reservoir_level_percent is in [10, 80], system_stability_score in [0, 100],
\* water_stress_index and carbon_stress_index in [0, 1], public_pressure_score
\* at most 1, emission_growth_rate at most 0.15, risk_probability at most 0.95
\* and days_until_critical at least 1.
C20_DerivedRanges ==
    dOut # None =>
        /\ dOut.reservoir_level_percent >= 10 * Scale.reservoir_level_percent
        /\ dOut.reservoir_level_percent <= 80 * Scale.reservoir_level_percent
        /\ dOut.system_stability_score >= 0
        /\ dOut.system_stability_score <= 100 * Scale.system_stability_score
        /\ dOut.water_stress_index >= 0
        /\ dOut.water_stress_index <= Scale.water_stress_index
        /\ dOut.carbon_stress_index >= 0
        /\ dOut.carbon_stress_index <= Scale.carbon_stress_index
        /\ dOut.public_pressure_score <= Scale.public_pressure_score
        /\ 100 * dOut.emission_growth_rate <= 15 * Scale.emission_growth_rate
        /\ 100 * dOut.risk_probability <= 95 * Scale.risk_probability
        /\ dOut.days_until_critical >= 1

\* deriveLocalGovData has returned for metrics with a negative emissions
\* value and no vulnerability, and the stability score is clamped at 0.
C20_Witness ==
    /\ dMetrics # None
    /\ dMetrics # Null
    /\ "total_emissions" \in DOMAIN dMetrics
    /\ dMetrics.total_emissions < 0
    /\ "average_social_vulnerability" \notin DOMAIN dMetrics
    /\ dOut # None
    /\ dOut.system_stability_score = 0

\* C21: for every simMetrics the forecast of deriveLocalGovData has 7 entries
\* in reservoir_projection and 7 in emission_projection; reservoir_projection
\* never increases and every entry of it is at least 10; emission_projection
\* never decreases.
C21_SevenStepForecast ==
    dOut # None =>
        /\ Len(dOut.reservoir_projection) = 7
        /\ Len(dOut.emission_projection) = 7
        /\ \A i \in 1..7 : dOut.reservoir_projection[i] >= 10
        /\ \A i \in 1..6 : dOut.reservoir_projection[i + 1] <= dOut.reservoir_projection[i]
        /\ \A i \in 1..6 : dOut.emission_projection[i + 1] >= dOut.emission_projection[i]

\* deriveLocalGovData has returned a forecast whose reservoir projection
\* falls over the seven steps and stays above the clamp, and whose emission
\* projection rises.
C21_Witness ==
    /\ dOut # None
    /\ dOut.reservoir_projection[7] < dOut.reservoir_projection[1]
    /\ dOut.reservoir_projection[7] > 10
    /\ dOut.emission_projection[7] > dOut.emission_projection[1]

-----------------------------------------------------------------------------
(* Properties of generateSyntheticNodes (GenSpec) *)

\* The current call has returned its list.
Returned == gSf # NoCall /\ Len(gOut) = NodeCount

\* C22: a call of generateSyntheticNodes returns 200 nodes with ids 0..199 and
\* every stress in [0, 1]; the list equals the list of the call before when
\* the stress factor is the same; the state of the seeded generator is
\* always below 2^28.
C22_SyntheticNodesDeterministic ==
    /\ gRng # NoCall => gRng \in 0..Mask28
    /\ \A k \in 1..Len(gDraws) : gDraws[k] \in 0..Mask28
    /\ Len(gOut) <= 200
    /\ \A k \in 1..Len(gOut) :
          /\ gOut[k].id = k - 1
          /\ WideLeq(WideZero, gOut[k].stress)
          /\ WideLeq(gOut[k].stress, WideOne)
    /\ gPrev # None => Len(gPrev.list) = 200
    /\ (Returned /\ gPrev # None /\ gPrev.sf = gSf) => gOut = gPrev.list

\* A second call with the same stress factor has returned; its list holds
\* nodes of different stress, one of them clamped at 1.
C22_Witness ==
    /\ Returned
    /\ gPrev # None
    /\ gPrev.sf = gSf
    /\ gOut[200].id = 199
    /\ \E j, k \in 1..200 : gOut[j].stress # gOut[k].stress
    /\ \E k \in 1..200 : gOut[k].stress = WideOne

-----------------------------------------------------------------------------
(* Properties of fetchGov (FetchGovSpec) *)

\* fetchGov has run in this step.
FetchGovRuns == fgCalls' > fgCalls

\* C24: a fetchGov with the governance service up overwrites each of the ten
\* fields with the response of its own endpoint when that response is not
\* null and leaves the field as it was when it is null; no call of fetchGov
\* sets a field that held a value back to null.
C24_LiveFieldsIndependent ==
    /\ [][(FetchGovRuns /\ fgLast'.govUp) =>
            \A f \in GovFields :
               IF fgLast'.results[f] # Null
               THEN gov'[f] = fgLast'.results[f] /\ gov'[f] # gov[f]
               ELSE gov'[f] = gov[f]]_vars
    /\ [][\A f \in GovFields : gov[f] # Null => gov'[f] # Null]_vars

\* A live fetchGov in which the state and alerts endpoints failed has kept
\* the state and alerts of the call before and replaced the climate.
C24_Witness ==
    /\ fgLast # None
    /\ fgLast.govUp
    /\ fgLast.results["stateData"] = Null
    /\ fgLast.results["climate"] # Null
    /\ gov["stateData"] = GovObject("stateData", 1)
    /\ gov["alerts"] = GovObject("alerts", 1)
    /\ gov["climate"] = GovObject("climate", 2)

\* C25: a fetchGov with the governance service down overwrites state,
\* climate, water, environment, economy, social and forecast with the derived
\* objects and leaves alerts, insight and health unchanged.
C25_FallbackKeepsAlerts ==
    [][(FetchGovRuns /\ ~fgLast'.govUp) =>
         /\ \A f \in DerivedFields :
               /\ gov'[f] = deriveLocalGovData(fgLast'.simMetrics, fgLast'.ts)[f]
               /\ gov'[f] # gov[f]
         /\ \A f \in GovFields \ DerivedFields : gov'[f] = gov[f]]_vars

\* The alerts, insight and health of a live call are held next to the
\* metrics derived by the fallback call after it.
C25_Witness ==
    /\ fgLast # None
    /\ ~fgLast.govUp
    /\ gov["alerts"] = GovObject("alerts", 1)
    /\ gov["insight"] = GovObject("insight", 1)
    /\ gov["health"] = GovObject("health", 1)
    /\ \A f \in DerivedFields : gov[f].t = "derived" /\ gov[f].cycle = 2

-----------------------------------------------------------------------------
(* Properties of the orbit simulation view (OrbitSpec) *)

\* A simulate request is issued in this step.
OrbitRequestIssued == svIssued' > svIssued

\* C23: the view issues a simulate request only when a timer fires while
\* isPlaying is true; once the effect has run there is at most one timer, its
\* period is max(500, 3000 / speedMultiplier) ms (3000 at speed 1, 500 at
\* speeds 10, 50 and 100), and there is none while paused or after unmount.
C23_OnePollingTimer ==
    /\ [](Len(svTimers) <= 1)
    /\ [](svEffects = 0 =>
            /\ (~isPlaying \/ ~svMounted) => svTimers = <<>>
            /\ (isPlaying /\ svMounted) => Len(svTimers) = 1
            /\ \A k \in 1..Len(svTimers) :
                  /\ svTimers[k].period = (IF speedMultiplier = 1 THEN 3000 ELSE 500)
                  /\ svTimers[k].in <= svTimers[k].period)
    /\ [][OrbitRequestIssued =>
            /\ isPlaying
            /\ svMounted
            /\ \E k \in 1..Len(svTimers) :
                  svTimers[k].in = 0 /\ svTimers'[k].in = svTimers[k].period]_vars

\* The view was paused and slowed down to speed 1, plays again, and the one
\* timer, of period 3000, has issued a request.
C23_Witness ==
    /\ svEffects = 0
    /\ isPlaying
    /\ speedMultiplier = 1
    /\ Len(svTimers) = 1
    /\ svTimers[1].period = 3000
    /\ svTimers[1].in = 3000
    /\ svRequests # {}

\* The response that arrives carries no step: the request failed, the status
\* is not 2xx, the body cannot be used, or results is missing or empty.
OrbitNoStep(o) ==
    \/ o.kind # "http"
    \/ ~o.ok
    \/ ~o.body.json
    \/ o.body.parsed = Null
    \/ ~o.body.parsed.hasResults
    \/ Len(o.body.parsed.results) = 0

\* A response is handled in this step.
OrbitSettles == svRequests' # svRequests /\ svIssued' = svIssued

\* C30 (as claimed): while the view is paused its metrics never change.
C30_PausedMetricsFrozen ==
    [][(svMounted' /\ ~isPlaying) => metrics' = metrics]_vars

\* C30 (amended): while the view is paused no simulate request is issued;
\* the metrics change only when the response of a request arrives that is
\* 2xx with a non-empty results array, and then become its first result and
\* its current_timestep, also while paused; a failed, non-2xx or empty-results
\* response leaves them unchanged.
C30_MetricsFollowResponses ==
    /\ [][(~isPlaying /\ svEffects = 0) => ~OrbitRequestIssued]_vars
    /\ [][(svMounted' /\ metrics' # metrics) =>
            /\ OrbitSettles
            /\ ~OrbitNoStep(svOutcome')
            /\ metrics'.latest = svOutcome'.body.parsed.results[1]
            /\ metrics'.timestep = svOutcome'.body.parsed.current_timestep]_vars
    /\ [][(OrbitSettles /\ OrbitNoStep(svOutcome')) => metrics' = metrics]_vars

\* The view is paused and shows the step of a request that was answered
\* after a non-2xx response had been ignored.
C30_Witness ==
    /\ svMounted
    /\ ~isPlaying
    /\ svEffects = 0
    /\ metrics # InitialMetrics
    /\ svOutcome # None
    /\ ~OrbitNoStep(svOutcome)
    /\ metrics.timestep = 2

-----------------------------------------------------------------------------
(* Properties of the chat inside the dashboard (AppSpec) *)

\* The state send works on changes in this step.
SendStateChanges ==
    \/ messages' # messages
    \/ input' # input
    \/ loading' # loading
    \/ chatReq' # chatReq
    \/ chatInFlight' # chatInFlight

\* 'Simulate This' is clicked in this step: it sets its timeout.
SimulateClicked == appliedTimers' > appliedTimers

\* C11: send (its start and the arrival of its response) changes chat state
\* only and leaves every dashboard variable alone; the dashboard steps leave
\* the chat alone; applyPolicy is invoked only by a 'Simulate This' click.
C11_ChatAndDashboardApart ==
    /\ [][SendStateChanges => UNCHANGED dashVars]_vars
    /\ [][(dashVars' # dashVars /\ ~SimulateClicked) => UNCHANGED chatVars]_vars
    /\ [][PolicyInvoked <=> SimulateClicked]_vars

\* A policy step started by the button is in progress while the transcript
\* holds the question and its analysis.
C11_Witness ==
    /\ Len(messages) = 2
    /\ ~loading
    /\ appliedIndex = 2
    /\ \E p \in Slots : procs[p].kind = "policy" /\ procs[p].pc = "fetch"

\* The calls that start in this step.
Started == {p \in Slots : procs[p].pc = "idle" /\ procs'[p].pc # "idle"}

\* C17: 'Simulate This' is clicked only under an assistant message that
\* carries a result with a non-empty delta; the click invokes applyPolicy
\* once, which issues one simulate request with steps = 1 and the policy_used
\* of that message.
C17_ClickSimulatesThatPolicy ==
    [][SimulateClicked =>
         LET i == appliedIndex' IN
         /\ i \in 1..Len(messages)
         /\ messages[i].role = "assistant"
         /\ "result" \in DOMAIN messages[i]
         /\ messages[i].result.delta # {}
         /\ appliedTimers' = appliedTimers + 1
         /\ Cardinality(Started) = 1
         /\ \A p \in Slots : procs'[p] # procs[p] => p \in Started
         /\ \A p \in Started :
               /\ procs'[p].kind = "policy"
               /\ procs'[p].pc = "sim"
               /\ procs'[p].body = [steps |-> 1, policy |-> messages[i].result.policy_used]]_vars

\* The simulate request of a click is in flight with the policy of the
\* message that was clicked, here policy 2.
C17_Witness ==
    /\ appliedIndex # NoIndex
    /\ appliedIndex <= Len(messages)
    /\ Offered(messages[appliedIndex])
    /\ messages[appliedIndex].result.policy_used = 2
    /\ \E p \in Slots :
          /\ procs[p].kind = "policy"
          /\ procs[p].pc = "sim"
          /\ procs[p].body = SimBody(Steps, 2)

====
